---- MODULE Spec2Model ----
(***************************************************************************)
(* A model of the remindme desktop client (src/app/app.go, src/app/db.go): *)
(* the bbolt database with its categories and last_run buckets, the two    *)
(* global maps activeReminders and lastRunStatuses, the UI callbacks       *)
(* (Start, Refresh, the X button), the interrupt handler, and one timer    *)
(* goroutine per started category, stepped at its accesses to the shared   *)
(* maps and to the database.                                               *)
(*                                                                         *)
(* An item is modelled by its name (its type and content only decide how   *)
(* the reminder window is drawn).  Category and item names are small       *)
(* integers, ordered like bbolt orders keys.  Database transactions        *)
(* succeed in Spec.                                                        *)
(***************************************************************************)
EXTENDS Integers, Sequences, FiniteSets, Bags, TLC

\* Bounds of the model.
NumCategories == 2
MaxItems == 4
MaxTasks == 2
MaxFaults == 1

Categories == 1..NumCategories
ItemNames == 1..MaxItems

VARIABLES
    categoriesBkt,    \* db: category -> set of item buckets      (persistent)
    lastRunBkt,       \* db: category -> decimal text of the index (persistent)
    running,          \* the process is alive
    ctxDone,          \* the root context was cancelled (interrupt)
    activeReminders,  \* category -> items snapshot
    lastRunStatuses,  \* category -> last index shown
    options,          \* categoryEntry.Options
    ui,               \* the UI thread: idle, or inside refreshCategories' loop
    tasks,            \* bag of timer goroutines
    progress,         \* history: category -> index of the latest saveLastRun not deleted since
    displayed,        \* history: the item at the category's persisted index has been displayed
    lastEnded,        \* history: the goroutine that ended last, why, and whether killReminder ran
    inserted,         \* history: category -> item names in the order their buckets were created
    fault,            \* history: the storage error of the step just taken, if any
    faults            \* history: the number of storage errors so far

vars == <<categoriesBkt, lastRunBkt, running, ctxDone, activeReminders, lastRunStatuses,
          options, ui, tasks, progress, displayed, lastEnded, inserted, fault,
          faults>>

-----------------------------------------------------------------------------
\* Go maps and bbolt buckets: partial functions.

EmptyMap == [k \in {} |-> 0]

Put(m, k, v) == [x \in DOMAIN m \cup {k} |-> IF x = k THEN v ELSE m[x]]

Delete(m, k) == [x \in DOMAIN m \ {k} |-> m[x]]

Range(s) == {s[i] : i \in DOMAIN s}

\* A cursor that walks the keys from the last to the first.
RECURSIVE CursorBackwards(_)
CursorBackwards(keys) ==
    IF keys = {} THEN <<>>
    ELSE LET last == CHOOSE k \in keys : \A o \in keys : k >= o
         IN  <<last>> \o CursorBackwards(keys \ {last})

\* A bbolt cursor walks the keys of a bucket in ascending byte order.
RECURSIVE Cursor(_)
Cursor(keys) ==
    IF keys = {} THEN <<>>
    ELSE LET first == CHOOSE k \in keys : \A o \in keys : k <= o
         IN  <<first>> \o Cursor(keys \ {first})

-----------------------------------------------------------------------------
\* strconv.Itoa and strconv.Atoi: an index is stored as decimal text.

Digits == <<"0", "1", "2", "3", "4", "5", "6", "7", "8", "9">>

RECURSIVE ItoaNat(_)
ItoaNat(n) ==
    IF n < 10 THEN <<Digits[n + 1]>>
    ELSE Append(ItoaNat(n \div 10), Digits[(n % 10) + 1])

Itoa(n) == IF n < 0 THEN <<"-">> \o ItoaNat(0 - n) ELSE ItoaNat(n)

IsDigit(ch) == \E d \in 1..10 : Digits[d] = ch

DigitVal(ch) == (CHOOSE d \in 1..10 : Digits[d] = ch) - 1

RECURSIVE AtoiNat(_)
AtoiNat(s) ==
    IF Len(s) = 0 THEN 0
    ELSE AtoiNat(SubSeq(s, 1, Len(s) - 1)) * 10 + DigitVal(s[Len(s)])

Atoi(s) ==
    LET signed == Len(s) > 0 /\ s[1] \in {"-", "+"}
        body == IF signed THEN Tail(s) ELSE s
    IN  IF Len(body) = 0 \/ \E i \in DOMAIN body : ~IsDigit(body[i])
        THEN [err |-> TRUE, val |-> 0]
        ELSE [err |-> FALSE,
              val |-> IF signed /\ s[1] = "-" THEN 0 - AtoiNat(body) ELSE AtoiNat(body)]

-----------------------------------------------------------------------------
\* db.go

\* The successive contents of the API server, which only grow.  At first the first
\* category has one item, the one that sorts last, and the others are empty; then the
\* first has every item and the others one less.
Feeds ==
    <<[c \in Categories |-> IF c = 1 THEN {MaxItems} ELSE {}],
      [c \in Categories |-> IF c = 1 THEN ItemNames ELSE 1..(MaxItems - 1)]>>

\* The contents a download can return now: the server is never behind the local copy.
Snapshots ==
    {f \in Range(Feeds) :
        /\ DOMAIN categoriesBkt \subseteq DOMAIN f
        /\ \A c \in DOMAIN categoriesBkt : categoriesBkt[c] \subseteq f[c]}

CatItems(f) ==
    LET names == Cursor(DOMAIN f)
    IN  [i \in 1..Len(names) |-> [Name |-> names[i], Items |-> Cursor(f[names[i]])]]

\* downloadFromAPI's db.Update: one transaction creates every category bucket and item bucket.
RECURSIVE Ingest(_, _)
Ingest(bkt, catItems) ==
    IF catItems = <<>> THEN bkt
    ELSE LET category == Head(catItems)
             old == IF category.Name \in DOMAIN bkt THEN bkt[category.Name] ELSE {}
         IN  Ingest(Put(bkt, category.Name, old \cup Range(category.Items)), Tail(catItems))

\* The order in which the transaction creates the item buckets: CreateBucketIfNotExists
\* creates a bucket the first time its name comes.
RECURSIVE AppendNew(_, _)
AppendNew(names, items) ==
    IF items = <<>> THEN names
    ELSE AppendNew(IF Head(items) \in Range(names) THEN names ELSE Append(names, Head(items)),
                   Tail(items))

RECURSIVE IngestOrder(_, _)
IngestOrder(ins, catItems) ==
    IF catItems = <<>> THEN ins
    ELSE LET category == Head(catItems)
             old == IF category.Name \in DOMAIN ins THEN ins[category.Name] ELSE <<>>
         IN  IngestOrder(Put(ins, category.Name, AppendNew(old, category.Items)),
                         Tail(catItems))

\* A db.Update in which every category before failAt was written and the write of
\* failAt failed, had each category its own transaction.
IngestPerCategory(bkt, catItems, failAt) ==
    Ingest(bkt, SelectSeq(catItems, LAMBDA category : category.Name < failAt))

\* downloadFromAPI's db.Update when the write of category failAt returns an error: the
\* function passed to Update returns the error and bbolt rolls the transaction back.
IngestFailing(bkt, catItems, failAt) == bkt

FeedNames(catItems) == [i \in 1..Len(catItems) |-> catItems[i].Name]

categoriesFromDB(bkt) == Cursor(DOMAIN bkt)

\* categoryItems: an error for an unknown category, else the item buckets in cursor order.
categoryItems(bkt, category) ==
    IF category \notin DOMAIN bkt
    THEN [err |-> TRUE, items |-> <<>>]
    ELSE [err |-> FALSE, items |-> Cursor(bkt[category])]

\* A saveLastRun that writes nothing.
saveLastRunDropped(bkt, category, index) == bkt

\* A deleteLastRun that deletes nothing.
deleteLastRunDropped(bkt, category) == bkt

saveLastRun(bkt, category, index) == Put(bkt, category, Itoa(index))

\* A deleteLastRun that empties the whole last_run bucket.
deleteLastRunAll(bkt, category) == EmptyMap

deleteLastRun(bkt, category) == Delete(bkt, category)

\* lastRuns: the loop reads indexB from records.First() and never again
\* (catB, _ = records.Next()), so every record is decoded from the first value.
lastRuns(bkt) ==
    LET records == Cursor(DOMAIN bkt)
    IN  IF records = <<>> THEN EmptyMap
        ELSE LET index == Atoi(bkt[records[1]])
             IN  IF index.err THEN EmptyMap
                 ELSE [catB \in DOMAIN bkt |-> index.val]

-----------------------------------------------------------------------------
\* app.go

\* The record that category's own last_run entry holds.
Persisted(bkt, category) == Atoi(bkt[category]).val

LastIndex(statuses, category) ==
    IF category \in DOMAIN statuses THEN statuses[category] ELSE 0 - 1

\* The index a resumed category is due to show first: the one after its own record,
\* when items are left to show.
ResumeAt(bkt, active, category) ==
    IF Persisted(bkt, category) < Len(active[category]) - 1
    THEN Persisted(bkt, category) + 1
    ELSE 0 - 1

\* startTimer's early returns: whether it goes on to start the goroutine.
StartsTimer(active, statuses, category) ==
    /\ category \in DOMAIN active
    /\ Len(active[category]) # 0
    /\ Len(active[category]) - LastIndex(statuses, category) - 1 # 0

\* showReminder's early returns: whether it goes on to show the next item.
HasNext(active, statuses, category) ==
    /\ category \in DOMAIN active
    /\ Len(active[category]) # 0
    /\ LastIndex(statuses, category) + 1 < Len(active[category])

\* A goroutine that waits for the ticker whatever immediateDisplay says.
NewTaskDelayed(category, immediateDisplay, origin, expect) ==
    [category |-> category,
     pc |-> "select",
     immediate |-> immediateDisplay,
     cancelled |-> FALSE,
     nextIndex |-> 0,
     nItems |-> 0,
     origin |-> origin,
     expect |-> expect,
     ticked |-> FALSE,
     why |-> "none"]

\* The goroutine startTimer starts.  pc: "first" (about to show the first reminder
\* without delay), "select" (blocked on the ticker and ctx.Done), "save" and "window"
\* (inside showReminder), "kill", "kill_status", "kill_db" (the deferred killReminder).
\* origin, expect and ticked are history, kept until the goroutine has shown an item:
\* whether main resumed it ("resume") or the Start button started it ("start"), the
\* index it is due to show first (-1: none known), and whether its ticker has fired.
\* why: what made it leave the loop.
NewTask(category, immediateDisplay, origin, expect) ==
    [category |-> category,
     pc |-> IF immediateDisplay THEN "first" ELSE "select",
     immediate |-> immediateDisplay,
     cancelled |-> FALSE,
     nextIndex |-> 0,
     nItems |-> 0,
     origin |-> origin,
     expect |-> expect,
     ticked |-> FALSE,
     why |-> "none"]

TaskSet == BagToSet(tasks)

TasksOf(category) == {t \in TaskSet : t.category = category}

TaskCount(category) == BagCardinality([t \in TasksOf(category) |-> tasks[t]])

KillPcs == {"kill", "kill_status", "kill_db"}

\* The goroutines of a category that have not left the ticker loop.
Ticking(category) == {t \in TasksOf(category) : t.pc \notin KillPcs}

TickingCount(category) == BagCardinality([t \in Ticking(category) |-> tasks[t]])

Replace(t, u) == (tasks (-) SetToBag({t})) (+) SetToBag({u})

Remove(t) == tasks (-) SetToBag({t})

UiIdle == [pc |-> "idle", category |-> 0]

AllDisplayed == [c \in Categories |-> TRUE]

NoneEnded == [category |-> 0, why |-> "none", cleanup |-> FALSE]

NoFault == [op |-> "none", category |-> 0, index |-> 0]

\* A step in which no item bucket is created and no transaction fails.
NoStorageEvent == inserted' = inserted /\ fault' = NoFault /\ faults' = faults

\* A transaction fails: the errors of a run are counted up to MaxFaults.
StorageError(op, category, index) ==
    /\ faults < MaxFaults
    /\ faults' = faults + 1
    /\ fault' = [op |-> op, category |-> category, index |-> index]

Init ==
    /\ categoriesBkt = EmptyMap
    /\ lastRunBkt = EmptyMap
    /\ running = FALSE
    /\ ctxDone = FALSE
    /\ activeReminders = EmptyMap
    /\ lastRunStatuses = EmptyMap
    /\ options = <<>>
    /\ ui = UiIdle
    /\ tasks = EmptyBag
    /\ progress = EmptyMap
    /\ displayed = AllDisplayed
    /\ lastEnded = NoneEnded
    /\ inserted = EmptyMap
    /\ fault = NoFault
    /\ faults = 0

-----------------------------------------------------------------------------
\* main, after the database is open: loads the last runs and resumes each of them
\* with startTimer(false, category, ctx).  A category whose items cannot be read is dropped.
Boot(bkt, categories) ==
    LET runs == lastRuns(lastRunBkt)
        resumed == {c \in DOMAIN runs : ~categoryItems(bkt, c).err}
        statuses == [c \in resumed |-> runs[c]]
        active == [c \in resumed |-> categoryItems(bkt, c).items]
        started == {c \in resumed : StartsTimer(active, statuses, c)}
    IN  /\ categoriesBkt' = bkt
        /\ options' = categories
        /\ lastRunStatuses' = statuses
        /\ activeReminders' = active
        /\ tasks' = SetToBag({NewTask(c, FALSE, "resume", ResumeAt(lastRunBkt, active, c)) :
                                 c \in started})
        /\ running' = TRUE
        /\ ctxDone' = FALSE
        /\ ui' = UiIdle
        /\ lastEnded' = NoneEnded
        /\ UNCHANGED <<lastRunBkt, progress, displayed>>

\* The process starts and the first refreshCategories() downloads the feed.
Main(f) ==
    /\ ~running
    /\ f \in Snapshots
    /\ Boot(Ingest(categoriesBkt, CatItems(f)), FeedNames(CatItems(f)))
    /\ inserted' = IngestOrder(inserted, CatItems(f))
    /\ fault' = NoFault
    /\ faults' = faults

\* The process starts and the download fails: the options stay those of categoriesFromDB().
MainOffline ==
    /\ ~running
    /\ Boot(categoriesBkt, categoriesFromDB(categoriesBkt))
    /\ NoStorageEvent

\* The process ends: the main window is closed, a.Quit() after an interrupt returns
\* from ShowAndRun, or the process is killed.  Every goroutine ends where it is.
Exit ==
    /\ running
    /\ running' = FALSE
    /\ ctxDone' = FALSE
    /\ activeReminders' = EmptyMap
    /\ lastRunStatuses' = EmptyMap
    /\ options' = <<>>
    /\ ui' = UiIdle
    /\ tasks' = EmptyBag
    /\ lastEnded' = NoneEnded
    /\ NoStorageEvent
    /\ UNCHANGED <<categoriesBkt, lastRunBkt, progress, displayed>>

\* The interrupt handler: cancel() on the root context every goroutine's context derives from.
Interrupt ==
    /\ running
    /\ ~ctxDone
    /\ ctxDone' = TRUE
    /\ NoStorageEvent
    /\ UNCHANGED <<categoriesBkt, lastRunBkt, running, activeReminders, lastRunStatuses,
                   options, ui, tasks, progress, displayed, lastEnded>>

\* A UI callback runs when the UI thread is free and the application has not been told to quit.
UiReady == running /\ ~ctxDone /\ ui.pc = "idle"

\* A check that lets every Start through.
NeverActive(active, category) == FALSE

\* The Start button's check: reminders for the category are already running.
AlreadyActive(active, category) == category \in DOMAIN active

\* The Start button on a category that is already active: only the error label changes.
StartRejected(category) ==
    /\ UiReady
    /\ category \in Range(options)
    /\ AlreadyActive(activeReminders, category)
    /\ UNCHANGED vars

\* The Start button: records the category's items as active and calls startTimer.
Start(category, immediateDisplay) ==
    /\ UiReady
    /\ category \in Range(options)
    /\ ~AlreadyActive(activeReminders, category)
    /\ ~categoryItems(categoriesBkt, category).err
    /\ BagCardinality(tasks) < MaxTasks
    /\ LET active == Put(activeReminders, category, categoryItems(categoriesBkt, category).items)
           t == NewTask(category, immediateDisplay, "start",
                        IF TasksOf(category) = {}
                        THEN LastIndex(lastRunStatuses, category) + 1
                        ELSE 0 - 1)
       IN  /\ activeReminders' = active
           /\ tasks' = IF StartsTimer(active, lastRunStatuses, category)
                       THEN tasks (+) SetToBag({t})
                       ELSE tasks
    /\ lastEnded' = NoneEnded
    /\ NoStorageEvent
    /\ UNCHANGED <<categoriesBkt, lastRunBkt, running, ctxDone, lastRunStatuses, options, ui,
                   progress, displayed>>

\* The X button of a reminder's row: cancel() on the goroutine's context.
Cancel(t) ==
    /\ UiReady
    /\ t \in TaskSet
    /\ t.pc \notin KillPcs
    /\ ~t.cancelled
    /\ tasks' = Replace(t, [t EXCEPT !.cancelled = TRUE])
    /\ NoStorageEvent
    /\ UNCHANGED <<categoriesBkt, lastRunBkt, running, ctxDone, activeReminders,
                   lastRunStatuses, options, ui, progress, displayed, lastEnded>>

\* for category := range activeReminders: the next key of the map after `after`.  Go
\* leaves the order of a map range open; the model takes the keys in ascending order.
RefreshLoop(active, after) ==
    LET rest == {c \in DOMAIN active : c > after}
    IN  IF rest = {} THEN UiIdle
        ELSE [pc |-> "assign", category |-> CHOOSE c \in rest : \A o \in rest : c <= o]

\* The Refresh button: a successful download, then the loop over activeReminders
\* reaches its first key and reads that category's items.
Refresh(f) ==
    /\ UiReady
    /\ f \in Snapshots
    /\ categoriesBkt' = Ingest(categoriesBkt, CatItems(f))
    /\ options' = FeedNames(CatItems(f))
    /\ inserted' = IngestOrder(inserted, CatItems(f))
    /\ fault' = NoFault
    /\ faults' = faults
    /\ ui' = RefreshLoop(activeReminders, 0)
    /\ UNCHANGED <<lastRunBkt, running, ctxDone, activeReminders, lastRunStatuses, tasks,
                   progress, displayed, lastEnded>>

\* activeReminders[category] = items, with the items just read; then the next key,
\* or the callback returns.
RefreshAssign ==
    /\ running
    /\ ui.pc = "assign"
    /\ activeReminders' = Put(activeReminders, ui.category,
                              categoryItems(categoriesBkt, ui.category).items)
    /\ ui' = RefreshLoop(activeReminders', ui.category)
    /\ NoStorageEvent
    /\ UNCHANGED <<categoriesBkt, lastRunBkt, running, ctxDone, lastRunStatuses, options,
                   tasks, progress, displayed, lastEnded>>

-----------------------------------------------------------------------------
\* The timer goroutine.

\* A goroutine that notes why it should leave and stays in the ticker loop.
LeavingStays(t, why) == [t EXCEPT !.why = why]

\* A goroutine that has left showReminder for good keeps only what killReminder needs.
Leaving(t, why) ==
    [t EXCEPT !.pc = "kill", !.immediate = FALSE, !.cancelled = FALSE, !.nextIndex = 0,
              !.nItems = 0, !.origin = "shown", !.expect = 0 - 1, !.ticked = FALSE,
              !.why = why]

\* showReminder returned false.  Before the ticker exists (the first reminder, shown
\* without delay) the goroutine just returns; afterwards the deferred killReminder runs.
ReturnFalse(t, why) ==
    IF t.immediate
    THEN /\ tasks' = Remove(t)
         /\ lastEnded' = [category |-> t.category, why |-> why, cleanup |-> FALSE]
    ELSE /\ tasks' = Replace(t, Leaving(t, why))
         /\ lastEnded' = lastEnded

\* showReminder up to lastRunStatuses[category] = nextIndex.
ShowReminder(t, ticked) ==
    LET nextIndex == LastIndex(lastRunStatuses, t.category) + 1
    IN  IF HasNext(activeReminders, lastRunStatuses, t.category)
        THEN /\ lastRunStatuses' = Put(lastRunStatuses, t.category, nextIndex)
             /\ tasks' = Replace(t, [t EXCEPT !.pc = "save", !.nextIndex = nextIndex,
                                              !.nItems = Len(activeReminders[t.category]),
                                              !.ticked = ticked])
             /\ lastEnded' = lastEnded
        ELSE /\ lastRunStatuses' = lastRunStatuses
             /\ ReturnFalse(t, "empty")

\* immediateDisplay: the goroutine's first statement is showReminder.
First(t) ==
    /\ t \in TaskSet
    /\ t.pc = "first"
    /\ ShowReminder(t, FALSE)
    /\ NoStorageEvent
    /\ UNCHANGED <<categoriesBkt, lastRunBkt, running, ctxDone, activeReminders, options, ui,
                   progress, displayed>>

\* case <-ticker.C
Tick(t) ==
    /\ t \in TaskSet
    /\ t.pc = "select"
    /\ ShowReminder(t, TRUE)
    /\ NoStorageEvent
    /\ UNCHANGED <<categoriesBkt, lastRunBkt, running, ctxDone, activeReminders, options, ui,
                   progress, displayed>>

\* case <-ctx.Done(): the X button or the root context.
Done(t) ==
    /\ t \in TaskSet
    /\ t.pc = "select"
    /\ t.cancelled \/ ctxDone
    /\ tasks' = Replace(t, Leaving(t, IF t.cancelled THEN "cancelled" ELSE "shutdown"))
    /\ NoStorageEvent
    /\ UNCHANGED <<categoriesBkt, lastRunBkt, running, ctxDone, activeReminders,
                   lastRunStatuses, options, ui, progress, displayed, lastEnded>>

\* showReminder: saveLastRun(category, nextIndex).
SaveLastRun(t) ==
    /\ t \in TaskSet
    /\ t.pc = "save"
    /\ lastRunBkt' = saveLastRun(lastRunBkt, t.category, t.nextIndex)
    /\ progress' = Put(progress, t.category, t.nextIndex)
    /\ displayed' = [displayed EXCEPT ![t.category] = FALSE]
    /\ tasks' = Replace(t, [t EXCEPT !.pc = "window"])
    /\ NoStorageEvent
    /\ UNCHANGED <<categoriesBkt, running, ctxDone, activeReminders, lastRunStatuses, options,
                   ui, lastEnded>>

\* showReminder: the reminder window is shown; it returns remaining > 0.
ShowWindow(t) ==
    /\ t \in TaskSet
    /\ t.pc = "window"
    /\ displayed' = [displayed EXCEPT ![t.category] = TRUE]
    /\ IF t.nItems - t.nextIndex - 1 > 0
       THEN /\ tasks' = Replace(t, [t EXCEPT !.pc = "select", !.immediate = FALSE,
                                             !.nextIndex = 0, !.nItems = 0,
                                             !.origin = "shown", !.expect = 0 - 1,
                                             !.ticked = FALSE])
            /\ lastEnded' = lastEnded
       ELSE ReturnFalse(t, "exhausted")
    /\ NoStorageEvent
    /\ UNCHANGED <<categoriesBkt, lastRunBkt, running, ctxDone, activeReminders,
                   lastRunStatuses, options, ui, progress>>

\* killReminder: the row leaves the box and delete(activeReminders, category).
KillActive(t) ==
    /\ t \in TaskSet
    /\ t.pc = "kill"
    /\ activeReminders' = Delete(activeReminders, t.category)
    /\ tasks' = Replace(t, [t EXCEPT !.pc = "kill_status"])
    /\ NoStorageEvent
    /\ UNCHANGED <<categoriesBkt, lastRunBkt, running, ctxDone, lastRunStatuses, options, ui,
                   progress, displayed, lastEnded>>

\* killReminder: delete(lastRunStatuses, category).
KillStatus(t) ==
    /\ t \in TaskSet
    /\ t.pc = "kill_status"
    /\ lastRunStatuses' = Delete(lastRunStatuses, t.category)
    /\ tasks' = Replace(t, [t EXCEPT !.pc = "kill_db"])
    /\ NoStorageEvent
    /\ UNCHANGED <<categoriesBkt, lastRunBkt, running, ctxDone, activeReminders, options, ui,
                   progress, displayed, lastEnded>>

\* killReminder: deleteLastRun(category); the goroutine ends.
KillDB(t) ==
    /\ t \in TaskSet
    /\ t.pc = "kill_db"
    /\ lastRunBkt' = deleteLastRun(lastRunBkt, t.category)
    /\ progress' = Delete(progress, t.category)
    /\ displayed' = [displayed EXCEPT ![t.category] = TRUE]
    /\ tasks' = Remove(t)
    /\ lastEnded' = [category |-> t.category, why |-> t.why, cleanup |-> TRUE]
    /\ NoStorageEvent
    /\ UNCHANGED <<categoriesBkt, running, ctxDone, activeReminders, lastRunStatuses, options,
                   ui>>

-----------------------------------------------------------------------------
Next ==
    \/ \E f \in Snapshots : Main(f)
    \/ MainOffline
    \/ Exit
    \/ Interrupt
    \/ \E c \in Categories : StartRejected(c)
    \/ \E c \in Categories, immediateDisplay \in BOOLEAN : Start(c, immediateDisplay)
    \/ \E t \in TaskSet : Cancel(t)
    \/ \E f \in Snapshots : Refresh(f)
    \/ RefreshAssign
    \/ \E t \in TaskSet : First(t)
    \/ \E t \in TaskSet : Tick(t)
    \/ \E t \in TaskSet : Done(t)
    \/ \E t \in TaskSet : SaveLastRun(t)
    \/ \E t \in TaskSet : ShowWindow(t)
    \/ \E t \in TaskSet : KillActive(t)
    \/ \E t \in TaskSet : KillStatus(t)
    \/ \E t \in TaskSet : KillDB(t)

Spec == Init /\ [][Next]_vars

-----------------------------------------------------------------------------
\* Storage errors.

\* The Refresh button when downloadFromAPI's transaction fails at category failAt:
\* refreshCategories shows the error and returns before touching the options.
RefreshFails(i, failAt) ==
    /\ UiReady
    /\ Feeds[i] \in Snapshots
    /\ failAt \in DOMAIN Feeds[i]
    /\ categoriesBkt' = IngestFailing(categoriesBkt, CatItems(Feeds[i]), failAt)
    /\ StorageError("ingest", failAt, i)
    /\ UNCHANGED <<lastRunBkt, running, ctxDone, activeReminders, lastRunStatuses, options, ui,
                   tasks, progress, displayed, lastEnded, inserted>>

\* The process starts and the first refreshCategories() fails in its transaction.
MainIngestFails(i, failAt) ==
    /\ ~running
    /\ Feeds[i] \in Snapshots
    /\ failAt \in DOMAIN Feeds[i]
    /\ LET bkt == IngestFailing(categoriesBkt, CatItems(Feeds[i]), failAt)
       IN  Boot(bkt, categoriesFromDB(categoriesBkt))
    /\ StorageError("ingest", failAt, i)
    /\ inserted' = inserted

\* A showReminder that takes back the index and returns false when saveLastRun fails.
SaveLastRunFailsStops(t) ==
    /\ t \in TaskSet
    /\ t.pc = "save"
    /\ lastRunStatuses' = Put(lastRunStatuses, t.category, t.nextIndex - 1)
    /\ tasks' = Replace(t, Leaving(t, "error"))
    /\ StorageError("save", t.category, t.nextIndex)
    /\ UNCHANGED <<categoriesBkt, lastRunBkt, running, ctxDone, activeReminders,
                   options, ui, progress, displayed, lastEnded, inserted>>

\* showReminder when saveLastRun returns an error: the error is printed and
\* showReminder goes on to the window.
SaveLastRunFails(t) ==
    /\ t \in TaskSet
    /\ t.pc = "save"
    /\ tasks' = Replace(t, [t EXCEPT !.pc = "window"])
    /\ StorageError("save", t.category, t.nextIndex)
    /\ UNCHANGED <<categoriesBkt, lastRunBkt, running, ctxDone, activeReminders,
                   lastRunStatuses, options, ui, progress, displayed, lastEnded, inserted>>

NextFaults ==
    \/ Next
    \/ \E i \in DOMAIN Feeds, failAt \in Categories : RefreshFails(i, failAt)
    \/ \E i \in DOMAIN Feeds, failAt \in Categories : MainIngestFails(i, failAt)
    \/ \E t \in TaskSet : SaveLastRunFails(t)

\* The program when the transactions of downloadFromAPI and saveLastRun may fail.
SpecFaults == Init /\ [][NextFaults]_vars

-----------------------------------------------------------------------------
\* Properties.

\* The index of category's own last_run record, -1 without one.
Ledger(bkt, category) ==
    IF category \in DOMAIN bkt THEN Persisted(bkt, category) ELSE 0 - 1

\* C1 (resume fidelity): a category whose record held i < len(items) - 1 when the
\* application restarted shows the item at index i + 1 first, also when several
\* categories have records: the goroutine main resumed for it, as long as it has shown
\* nothing yet, is never about to show another index than the one after its own record.
C1_ResumeFidelity ==
    \A t \in TaskSet :
        (t.origin = "resume" /\ t.expect >= 0 /\ t.pc \in {"save", "window"})
            => t.nextIndex = t.expect

\* C2 (ledger round-trip): lastRuns() returns exactly the pairs most recently written
\* by saveLastRun and not deleted since.
C2_LedgerRoundTrip == lastRuns(lastRunBkt) = progress

\* C4 (exhaustion removes the task from the active set, on every path): a category
\* whose last item has been shown stays in activeReminders only while a goroutine of
\* the category is still alive to remove it.
C4_ExhaustionLeavesActiveSet ==
    \A c \in DOMAIN activeReminders :
        (/\ c \in DOMAIN lastRunStatuses
         /\ Len(activeReminders[c]) > 0
         /\ lastRunStatuses[c] = Len(activeReminders[c]) - 1)
            => TasksOf(c) # {}

\* A goroutine of category is inside showReminder, about to write the record.
Saving(category) == {t \in TasksOf(category) : t.pc = "save"}

\* C3 (monotonic progress): with no Cancel and no other goroutine of the category
\* about, a tick that shows an item raises the category's record in the ledger by
\* exactly one; checked on the first tick of a goroutine main resumed, which follows
\* the last tick of the run before.
C3_MonotonicProgress ==
    [][\A c \in Categories :
          (/\ TasksOf(c) = Saving(c)
           /\ \E t \in Saving(c) :
                 /\ ~t.cancelled
                 /\ t.origin = "resume"
                 /\ tasks' = Replace(t, [t EXCEPT !.pc = "window"])
                 /\ lastRunBkt' = saveLastRun(lastRunBkt, c, t.nextIndex))
              => Ledger(lastRunBkt', c) = Ledger(lastRunBkt, c) + 1]_vars

\* C5 (exhaustion preserves progress), as the code has it: once a category's goroutine
\* has ended because a timer tick showed the last item, its killReminder has run and no
\* goroutine of the category is left, the ledger holds no record for the category.
C5_ExhaustionClearsProgress ==
    \A c \in Categories :
        (lastEnded = [category |-> c, why |-> "exhausted", cleanup |-> TRUE] /\ TasksOf(c) = {})
            => c \notin DOMAIN lastRunBkt

\* C5 as the specification states it: after that end the ledger still holds
\* len(items) - 1 for the category.
C5_ExhaustionPreservesProgress ==
    \A c \in Categories :
        (lastEnded = [category |-> c, why |-> "exhausted", cleanup |-> TRUE] /\ TasksOf(c) = {})
            => Ledger(lastRunBkt, c) = Cardinality(categoriesBkt[c]) - 1

\* A goroutine has ended on a tick that showed the last item, and its cleanup is over.
C5_Exhausted ==
    \E c \in Categories :
        /\ lastEnded = [category |-> c, why |-> "exhausted", cleanup |-> TRUE]
        /\ TasksOf(c) = {}
        /\ running

\* C6 (cancellation resets): once a category's goroutine has ended on the X button and
\* its cleanup is over, the ledger has no record for the category, the category is not
\* in activeReminders, and it has no entry in lastRunStatuses, so that the next Start
\* is accepted and shows index 0 first.
C6_CancellationResets ==
    \A c \in Categories :
        (lastEnded = [category |-> c, why |-> "cancelled", cleanup |-> TRUE] /\ TasksOf(c) = {} /\ running)
            => /\ c \notin DOMAIN lastRunBkt
               /\ c \notin DOMAIN activeReminders
               /\ c \notin DOMAIN lastRunStatuses

\* C7 (mutual exclusion): at any time at most one goroutine per category is in the
\* ticker loop; a Start on an active category starts none.
C7_MutualExclusion == \A c \in Categories : TickingCount(c) <= 1

\* A category restarted while the goroutine it cancelled is still inside killReminder:
\* two goroutines of the category, one of them ticking.
C7_RestartedDuringCleanup ==
    \E c \in Categories : TickingCount(c) = 1 /\ TaskCount(c) = 2

\* A record of category is about to be deleted by a goroutine the shutdown stopped.
ShutdownCleanup(category) ==
    /\ ctxDone
    /\ category \in DOMAIN lastRunBkt
    /\ \A t \in TasksOf(category) : ~t.cancelled /\ t.why \in {"none", "shutdown"}

\* C8 (progress survives shutdown): when the application is shut down by an interrupt
\* while a category is running, not exhausted and not cancelled by the user, the
\* category's record stays in the ledger.
C8_ProgressSurvivesShutdown ==
    [][\A c \in Categories :
          (ShutdownCleanup(c) /\ running')
              => c \in DOMAIN lastRunBkt']_vars

ResumeDue(bkt, records) ==
    {c \in DOMAIN records :
        c \in DOMAIN bkt /\ Persisted(records, c) < Cardinality(bkt[c]) - 1}

\* C10 (restart auto-start): when the application starts, exactly the categories whose
\* record is below len(items) - 1 get a goroutine, one each, waiting for its first tick.
C10_RestartAutoStart ==
    [][(~running /\ running')
          => /\ {t.category : t \in BagToSet(tasks')} = ResumeDue(categoriesBkt', lastRunBkt)
             /\ \A t \in BagToSet(tasks') : tasks'[t] = 1 /\ t.pc = "select"]_vars

\* C11 (empty-category no-op): a Start on a category without items leaves it idle: a
\* category that has no item in the database is never recorded in activeReminders, and
\* has no index in memory and no record in the ledger.
C11_EmptyCategoryNoOp ==
    \A c \in DOMAIN categoriesBkt :
        categoriesBkt[c] = {}
            => /\ c \notin DOMAIN activeReminders
               /\ c \notin DOMAIN lastRunStatuses
               /\ c \notin DOMAIN lastRunBkt

C14_StartTiming ==
    \A t \in TaskSet :
        (t.origin = "start" /\ t.pc \in {"save", "window"})
            => /\ t.immediate <=> ~t.ticked
               /\ t.expect >= 0 => t.nextIndex = t.expect

\* Two categories started from idle are showing their first item, one at once and the
\* other on its first tick.
C14_BothWaysStarted ==
    \E t, u \in TaskSet :
        /\ t.origin = "start" /\ t.pc = "window" /\ t.immediate /\ t.expect = t.nextIndex
        /\ u.origin = "start" /\ u.pc = "window" /\ ~u.immediate /\ u.expect = u.nextIndex

\* C15 (Start is a no-op only for a running or an empty category): a category that has
\* items in the database is in activeReminders, where the Start button rejects it as
\* already running, only while a goroutine of the category exists.
C15_RejectedOnlyWhileRunning ==
    \A c \in DOMAIN activeReminders :
        (c \in DOMAIN categoriesBkt /\ categoriesBkt[c] # {}) => TasksOf(c) # {}

\* C16 (index bound): for every category with an index in memory or a record in the
\* ledger, the index is below the number of items of the category.
C16_IndexBound ==
    /\ \A c \in DOMAIN lastRunStatuses :
          c \in DOMAIN categoriesBkt /\ lastRunStatuses[c] < Cardinality(categoriesBkt[c])
    /\ \A c \in DOMAIN lastRunBkt :
          c \in DOMAIN categoriesBkt /\ Persisted(lastRunBkt, c) < Cardinality(categoriesBkt[c])

\* The accesses to the two maps that threads are about to make.  A goroutine at
\* "first" runs showReminder at once (it reads both maps and writes lastRunStatuses when
\* an item is left), one at "kill" deletes from activeReminders, one at "kill_status"
\* from lastRunStatuses; the UI thread at "assign" writes activeReminders.  A goroutine
\* at "select" is blocked and counts for nothing.  No access is made under a lock.
Goroutines == {<<t, n>> : t \in TaskSet, n \in 1..MaxTasks}

Alive(g) == g[2] <= tasks[g[1]]

ReadsActive(g) == g[1].pc = "first"

WritesActive(g) == g[1].pc = "kill"

UiWritesActive == running /\ ui.pc = "assign"

ReadsStatuses(g) == g[1].pc = "first"

WritesStatuses(g) ==
    \/ g[1].pc = "kill_status"
    \/ g[1].pc = "first" /\ HasNext(activeReminders, lastRunStatuses, g[1].category)

\* Two threads are about to access the same map, one of them writing.
DataRace(g, other) ==
    /\ g # other
    /\ Alive(g) /\ Alive(other)
    /\ \/ WritesActive(g) /\ (ReadsActive(other) \/ WritesActive(other))
       \/ WritesStatuses(g) /\ (ReadsStatuses(other) \/ WritesStatuses(other))

UiDataRace(g) == Alive(g) /\ UiWritesActive /\ (ReadsActive(g) \/ WritesActive(g))

\* C17 (serialized shared state): in no reachable state are two threads (the UI thread
\* and a goroutine, or two goroutines) about to access activeReminders or
\* lastRunStatuses at the same time, one of them writing.
C17_SerializedSharedState ==
    \A g \in Goroutines : ~UiDataRace(g) /\ \A other \in Goroutines : ~DataRace(g, other)

\* C18 (optimistic persistence failure): when saveLastRun fails during a tick, the
\* ledger keeps its records, the index in memory is not taken back (it still is the
\* index of the item being shown, so the next tick shows the item after it), and the
\* goroutine goes on to show the item instead of stopping.
C18_SaveFailureSwallowed ==
    [][fault'.op = "save"
          => /\ lastRunBkt' = lastRunBkt
             /\ lastRunStatuses' = lastRunStatuses
             /\ fault'.category \in DOMAIN lastRunStatuses'
                   => lastRunStatuses'[fault'.category] = fault'.index
             /\ BagCardinality(tasks') = BagCardinality(tasks)
             /\ \E u \in BagToSet(tasks') :
                   /\ u.category = fault'.category
                   /\ u.pc = "window"
                   /\ u.nextIndex = fault'.index]_vars

\* saveLastRun has just failed on a second or later item: the ledger holds the index
\* before the one in memory.
C18_LedgerBehindMemory ==
    /\ fault.op = "save"
    /\ fault.index > 0
    /\ fault.category \in DOMAIN lastRunStatuses
    /\ lastRunStatuses[fault.category] = fault.index
    /\ Ledger(lastRunBkt, fault.category) = fault.index - 1

\* C19 (cancellation stops ticking), as the code has it: once a goroutine has observed
\* the cancellation (its select has taken ctx.Done), it starts no tick any more: its
\* only steps are those of killReminder, which write no index, and its end.
C19_ObservedCancelStopsTicking ==
    [][\A t \in TaskSet :
          (t.why = "cancelled" /\ running')
              => \/ CopiesIn(t, tasks') >= CopiesIn(t, tasks)
                 \/ /\ \E pc \in KillPcs : tasks' = Replace(t, [t EXCEPT !.pc = pc])
                    /\ lastRunBkt' = lastRunBkt
                 \/ /\ tasks' = Remove(t)
                    /\ lastRunBkt' = deleteLastRun(lastRunBkt, t.category)]_vars

\* C19 as the specification states it: once the cancellation signal of a goroutine has
\* been raised, the goroutine starts no new tick.
C19_RaisedCancelStopsTicking ==
    [][\A t \in TaskSet :
          (t.cancelled /\ t.pc = "select")
              => \A u \in BagToSet(tasks') :
                    ~(u.pc = "save" /\ u.category = t.category /\ tasks' = Replace(t, u))]_vars

\* A goroutine has observed its cancellation while its category had an item left to show.
C19_CancelledWithItemsLeft ==
    \E t \in TaskSet :
        /\ t.why = "cancelled"
        /\ t.pc = "kill"
        /\ HasNext(activeReminders, lastRunStatuses, t.category)

\* The entry of category d is the same in m and n: in both with one value, or in neither.
SameEntry(m, n, d) ==
    /\ d \in DOMAIN m <=> d \in DOMAIN n
    /\ d \in DOMAIN m => m[d] = n[d]

\* The goroutines that the step starts, moves, cancels or ends.
Stepped ==
    {t \in BagToSet(tasks) \cup BagToSet(tasks') : CopiesIn(t, tasks) # CopiesIn(t, tasks')}

\* C20 (task independence): while the program runs, a step of one category's goroutine
\* (a tick, an exhaustion, its cleanup) or a Start or Cancel of that category leaves
\* every other category's in-memory index, ledger record, item snapshot, membership
\* of the active set and goroutines as they were.
C20_TaskIndependence ==
    [][(running /\ running' /\ tasks' # tasks)
          => \E c \in Categories :
                /\ \A t \in Stepped : t.category = c
                /\ \A d \in Categories \ {c} :
                      /\ SameEntry(lastRunStatuses, lastRunStatuses', d)
                      /\ SameEntry(lastRunBkt, lastRunBkt', d)
                      /\ SameEntry(activeReminders, activeReminders', d)]_vars

\* One category's goroutine has ended through killReminder while another category
\* has its index in memory and in the ledger and its goroutine ticking.
C20_EndedBesideTicking ==
    \E d \in Categories \ {lastEnded.category} :
        /\ lastEnded.cleanup
        /\ d \in DOMAIN lastRunStatuses
        /\ d \in DOMAIN lastRunBkt
        /\ d \in DOMAIN activeReminders
        /\ \E t \in TasksOf(d) : t.pc = "select"

\* C21 (stale cleanup does not clobber a new task): when a goroutine that has already
\* removed its category from the active set takes a later step of killReminder while a
\* goroutine started since for the same category has saved and shown an item, the step
\* leaves the category's index in memory and its record in the ledger as they were.
C21_StaleCleanupKeepsProgress ==
    [][\A t \in TaskSet :
          (/\ t.pc \in {"kill_status", "kill_db"}
           /\ Stepped \cap BagToSet(tasks) = {t}
           /\ \E u \in TasksOf(t.category) : u.pc = "select" /\ u.origin = "shown")
              => /\ SameEntry(lastRunStatuses, lastRunStatuses', t.category)
                 /\ SameEntry(lastRunBkt, lastRunBkt', t.category)]_vars

\* C22 (Refresh never creates active entries): the assignment in refreshCategories'
\* loop only replaces the snapshot of a category that is in the active set; it never
\* puts back a category that a goroutine's killReminder has removed meanwhile.
C22_RefreshCreatesNoEntry ==
    [][(/\ ui.pc = "assign"
        /\ running'
        /\ tasks' = tasks
        /\ activeReminders' # activeReminders)
          => DOMAIN activeReminders' = DOMAIN activeReminders]_vars

====
